---- MODULE Spec2Model ----
(***************************************************************************)
(* Progress tracking of daily_insight_timer.py: the history file           *)
(* (.history.json), load_history / save_history / reset_progress, the pair *)
(* selection of create_reel and the order of the steps of main.            *)
(*                                                                         *)
(* One process runs at a time (an external scheduler starts main).  A run  *)
(* ends by returning, by an uncaught exception of one of its steps, or by  *)
(* being killed from outside at any step.  The history file is the only    *)
(* state that survives a run.                                              *)
(***************************************************************************)
EXTENDS Integers, Sequences, FiniteSets, TLC

\* ------------------------------------------------------------------ bounds
\* largest number of image files and of audio files in the pools
MaxPool == 5
\* number of distinct values random.randint(1, 999999) is sampled from
NumSeeds == 3

\* ------------------------------------------------------- program constants
LOW_STOCK_THRESHOLD == 3
SeedLo == 1
SeedHi == 999999
\* Python's None in the shuffle_seed field (no seed is 0: seeds are >= SeedLo)
None == 0

\* the values randint may return in the model: SeedLo, SeedHi and evenly
\* spaced values between them
Seeds == { SeedLo + k * ((SeedHi - SeedLo) \div (NumSeeds - 1)) : k \in 0..(NumSeeds - 1) }

\* {"index": 0, "shuffle_seed": None}
DefaultHistory == [index |-> 0, shuffle_seed |-> None]

\* ------------------------------------------------- json.dump / json.load
DigitChars == <<"0", "1", "2", "3", "4", "5", "6", "7", "8", "9">>

\* str(n) with the digits in the wrong order (least significant first)
RECURSIVE IntToStrReversed(_)
IntToStrReversed(n) ==
    IF n < 10 THEN <<DigitChars[n + 1]>>
    ELSE <<DigitChars[(n % 10) + 1]>> \o IntToStrReversed(n \div 10)

\* str(n) for n >= 0, one character per element
RECURSIVE IntToStr(_)
IntToStr(n) ==
    IF n < 10 THEN <<DigitChars[n + 1]>>
    ELSE IntToStr(n \div 10) \o <<DigitChars[(n % 10) + 1]>>

IsDigit(c) == \E d \in 1..10 : DigitChars[d] = c

DigitVal(c) == (CHOOSE d \in 1..10 : DigitChars[d] = c) - 1

\* int(s) for a non-empty sequence of digits
RECURSIVE StrToInt(_)
StrToInt(s) ==
    IF Len(s) = 1 THEN DigitVal(s[1])
    ELSE 10 * StrToInt(SubSeq(s, 1, Len(s) - 1)) + DigitVal(s[Len(s)])

IsNumber(s) == Len(s) > 0 /\ \A k \in 1..Len(s) : IsDigit(s[k])

\* the chunks json.dump(history, f, indent=2) writes, in order
JsonDump(h) ==
    <<"{", "index", ":">> \o IntToStr(h.index)
    \o <<",", "shuffle_seed", ":">>
    \o (IF h.shuffle_seed = None THEN <<"null">> ELSE IntToStr(h.shuffle_seed))
    \o <<"}">>

\* json.load on the text of the history file: ok = FALSE is a JSONDecodeError
JsonLoad(txt) ==
    LET commas == { p \in 1..Len(txt) : txt[p] = "," }
        c      == CHOOSE p \in commas : \A q \in commas : p <= q
        idx    == SubSeq(txt, 4, c - 1)
        sd     == SubSeq(txt, c + 3, Len(txt) - 1)
    IN  IF /\ Len(txt) >= 9
           /\ txt[1] = "{" /\ txt[2] = "index" /\ txt[3] = ":"
           /\ commas # {}
           /\ c + 3 <= Len(txt) - 1
           /\ IsNumber(idx)
           /\ txt[c + 1] = "shuffle_seed" /\ txt[c + 2] = ":"
           /\ (sd = <<"null">> \/ IsNumber(sd))
           /\ txt[Len(txt)] = "}"
        THEN [ok |-> TRUE,
              value |-> [index |-> StrToInt(idx),
                         shuffle_seed |-> IF sd = <<"null">> THEN None ELSE StrToInt(sd)]]
        ELSE [ok |-> FALSE, value |-> DefaultHistory]

\* the history file: absent, or present with some text
NoFile == [exists |-> FALSE, content |-> <<>>]
FileWith(txt) == [exists |-> TRUE, content |-> txt]

\* open(HISTORY_FILE, "w"): the file exists and is empty
OpenForWrite == FileWith(<<>>)

\* what a write of txt leaves in the file when it is interrupted before the
\* file is closed: some proper prefix of txt
Partial(txt) == { FileWith(SubSeq(txt, 1, k)) : k \in 0..(Len(txt) - 1) }

load_history(f) ==
    IF ~f.exists THEN DefaultHistory
    ELSE IF JsonLoad(f.content).ok THEN JsonLoad(f.content).value
    ELSE DefaultHistory

\* the file after save_history(h) has returned
save_history(h) == FileWith(JsonDump(h))

\* a reset that writes Day 1 as the index
reset_progress_day_one == FileWith(JsonDump([index |-> 1, shuffle_seed |-> None]))

\* the file after reset_progress() has returned
reset_progress == FileWith(JsonDump(DefaultHistory))

\* -------------------------------------------- random.seed / random.shuffle
\* The generator seeded by random.seed(s): a stream of integers that depends
\* on s alone (a linear congruential stream stands for the library's).
RandModulus == 65537
RandInit(s) == s % RandModulus
RandNext(x) == (75 * x + 74) % RandModulus

Swap(x, a, b) == [x EXCEPT ![a] = x[b], ![b] = x[a]]

\* random.shuffle: for i in reversed(range(1, len(x))): j = randbelow(i + 1);
\* x[i], x[j] = x[j], x[i]   (x is 1-based here, i and j are 0-based)
RECURSIVE ShuffleFrom(_, _, _)
ShuffleFrom(x, i, st) ==
    IF i < 1 THEN x
    ELSE LET st2 == RandNext(st)
             j   == st2 % (i + 1)
         IN  ShuffleFrom(Swap(x, i + 1, j + 1), i - 1, st2)

\* random.seed(seed); shuffled_indices = list(range(n)); random.shuffle(...)
shuffled_indices(n, seed) ==
    ShuffleFrom([k \in 1..n |-> k - 1], n - 1, RandInit(seed))

\* ------------------------------------------------------------------- state
VARIABLES
    nImages,         \* len(images): image files in IMAGES_DIR
    nAudios,         \* len(audios): audio files in AUDIO_DIR
    RESET_PROGRESS,  \* the reset flag of the running process
    file,            \* HISTORY_FILE
    pc,              \* where the running process is ("idle": none runs)
    history,         \* create_reel's local dict
    pair_index,      \* create_reel's local
    day_number,      \* create_reel's local
    outcome,         \* how the last run ended ("running" while it runs)
    effects,         \* the outside steps the run has attempted
    alertRaised,     \* send_low_stock_alert raised in this run
    \* history variables (observations only, never read by the program)
    runStartFile,    \* the file when the running process started
    observedIdx,     \* the index the last load_history returned
    resetSince,      \* reset_progress ran since the last load_history
    seedChosen,      \* a chosen seed was saved since the last reset_progress
    picks            \* the selections of the current cycle, in order

vars == <<nImages, nAudios, RESET_PROGRESS, file, pc, history, pair_index,
          day_number, outcome, effects, alertRaised, runStartFile, observedIdx,
          resetSince, seedChosen, picks>>

pool     == <<nImages, nAudios>>
locals   == <<history, pair_index, day_number>>
obsIndex == <<observedIdx, resetSince>>

\* min(len(images), len(audios))
total_pairs == IF nImages < nAudios THEN nImages ELSE nAudios

Records == [index : 0..(MaxPool + 1), shuffle_seed : Seeds \cup {None}]

\* no process: its locals and environment are gone
NoProcess ==
    /\ RESET_PROGRESS = FALSE
    /\ history = DefaultHistory
    /\ pair_index = 0
    /\ day_number = 0
    /\ effects = {}
    /\ alertRaised = FALSE
    /\ runStartFile = NoFile

InitRest ==
    /\ nImages \in 0..MaxPool
    /\ nAudios \in 0..MaxPool
    /\ pc = "idle"
    /\ outcome = "none"
    /\ NoProcess
    /\ observedIdx = 0
    /\ resetSince = FALSE
    /\ seedChosen = FALSE
    /\ picks = <<>>

\* a fresh deployment: no history file yet
Init ==
    /\ file = NoFile
    /\ InitRest

\* the history file as an input: absent, or any record
InitAnyRecord ==
    /\ file \in {NoFile} \cup { save_history(r) : r \in Records }
    /\ InitRest

\* ----------------------------------------------------------------- actions
\* the process ends: by the uncaught exception of a step, by a kill, or by
\* the return of main
EndRun(what) ==
    /\ pc' = "idle"
    /\ outcome' = what
    /\ RESET_PROGRESS' = FALSE
    /\ history' = DefaultHistory
    /\ pair_index' = 0
    /\ day_number' = 0
    /\ effects' = {}
    /\ alertRaised' = FALSE
    /\ runStartFile' = NoFile

\* main, up to the test of RESET_PROGRESS
main_start ==
    /\ pc = "idle"
    /\ \E flag \in BOOLEAN :
        /\ RESET_PROGRESS' = flag
        /\ pc' = IF flag THEN "reset" ELSE "create"
    /\ outcome' = "running"
    /\ runStartFile' = file
    /\ UNCHANGED <<pool, file, locals, effects, alertRaised, obsIndex,
                   seedChosen, picks>>

\* reset_progress: open(HISTORY_FILE, "w")
reset_progress_open ==
    /\ pc = "reset"
    /\ file' = OpenForWrite
    /\ resetSince' = TRUE
    /\ seedChosen' = FALSE
    /\ picks' = <<>>
    /\ pc' = "reset_open"
    /\ UNCHANGED <<pool, RESET_PROGRESS, locals, outcome, effects, alertRaised,
                   runStartFile, observedIdx>>

\* reset_progress: json.dump and close
reset_progress_write ==
    /\ pc = "reset_open"
    /\ file' = reset_progress
    /\ pc' = "create"
    /\ UNCHANGED <<pool, RESET_PROGRESS, locals, outcome, effects, alertRaised,
                   runStartFile, obsIndex, seedChosen, picks>>

\* a test that forgets the audio list
EmptyPool_images_only(ni, na) == ni = 0

\* not images or not audios
EmptyPool(ni, na) == ni = 0 \/ na = 0

\* create_reel, from the directory listings to the test of shuffle_seed
create_reel_begin ==
    /\ pc = "create"
    /\ IF EmptyPool(nImages, nAudios)
       THEN /\ EndRun("empty")
            /\ UNCHANGED obsIndex
       ELSE /\ history' = load_history(file)
            /\ observedIdx' = load_history(file).index
            /\ resetSince' = FALSE
            /\ pc' = IF load_history(file).shuffle_seed = None THEN "seed" ELSE "shuffle"
            /\ UNCHANGED <<RESET_PROGRESS, pair_index, day_number, outcome,
                           effects, alertRaised, runStartFile>>
    /\ UNCHANGED <<pool, file, seedChosen, picks>>

\* history["shuffle_seed"] = random.randint(1, 999999); save_history opens the file
create_reel_seed ==
    /\ pc = "seed"
    /\ \E s \in Seeds : history' = [history EXCEPT !.shuffle_seed = s]
    /\ file' = OpenForWrite
    /\ pc' = "seed_open"
    /\ UNCHANGED <<pool, RESET_PROGRESS, pair_index, day_number, outcome, effects,
                   alertRaised, runStartFile, obsIndex, seedChosen, picks>>

\* save_history(history) of the new seed: json.dump and close
create_reel_seed_write ==
    /\ pc = "seed_open"
    /\ file' = save_history(history)
    /\ seedChosen' = TRUE
    /\ pc' = "shuffle"
    /\ UNCHANGED <<pool, RESET_PROGRESS, locals, outcome, effects, alertRaised,
                   runStartFile, obsIndex, picks>>

\* history["index"] = i + 1
Advance(h) == [h EXCEPT !.index = h.index + 1]

\* a fresh shuffle for every day instead of one permutation for the cycle
PairAt_reshuffled(n, seed, i) == shuffled_indices(n, seed + i)[1]

\* shuffled_indices[i] (the model's sequences are 1-based)
PairAt(n, seed, i) == shuffled_indices(n, seed)[i + 1]

\* i >= total_pairs
Exhausted(i, n) == i >= n

\* create_reel, from random.seed to the open of the save of the advanced index
create_reel_select ==
    /\ pc = "shuffle"
    /\ IF Exhausted(history.index, total_pairs)
       THEN /\ EndRun("exhausted")
            /\ UNCHANGED file
       ELSE /\ day_number' = history.index + 1
            /\ pair_index' = PairAt(total_pairs, history.shuffle_seed, history.index)
            /\ history' = Advance(history)
            /\ file' = OpenForWrite
            /\ pc' = "index_open"
            /\ UNCHANGED <<RESET_PROGRESS, outcome, effects, alertRaised,
                           runStartFile>>
    /\ UNCHANGED <<pool, obsIndex, seedChosen, picks>>

\* save_history(history) of the advanced index: json.dump and close
create_reel_index_write ==
    /\ pc = "index_open"
    /\ file' = save_history(history)
    /\ picks' = LET e == [pair |-> pair_index, day |-> day_number,
                          seed |-> history.shuffle_seed]
                IN  IF day_number = 1 THEN <<e>> ELSE Append(picks, e)
    /\ pc' = "low_stock"
    /\ UNCHANGED <<pool, RESET_PROGRESS, locals, outcome, effects, alertRaised,
                   runStartFile, obsIndex, seedChosen>>

\* remaining = total_pairs - history["index"]
remaining == total_pairs - history.index

\* a strict comparison with the threshold
LowStock_strict(r) == r < LOW_STOCK_THRESHOLD

\* remaining <= LOW_STOCK_THRESHOLD
LowStock(r) == r <= LOW_STOCK_THRESHOLD

\* the low-stock test and send_low_stock_alert inside try / except Exception
create_reel_low_stock ==
    /\ pc = "low_stock"
    /\ IF LowStock(remaining)
       THEN /\ effects' = effects \cup {"alert"}
            /\ \E raised \in BOOLEAN : alertRaised' = raised
       ELSE UNCHANGED <<effects, alertRaised>>
    /\ pc' = "ffmpeg"
    /\ UNCHANGED <<pool, RESET_PROGRESS, file, locals, outcome, runStartFile,
                   obsIndex, seedChosen, picks>>

\* a step that calls an outside collaborator: it returns or it raises
Outside(at, name, next) ==
    /\ pc = at
    /\ \E ok \in BOOLEAN :
        IF ok
        THEN /\ pc' = next
             /\ effects' = effects \cup {name}
             /\ UNCHANGED <<RESET_PROGRESS, locals, outcome, alertRaised,
                            runStartFile>>
        ELSE EndRun("failed")
    /\ UNCHANGED <<pool, file, obsIndex, seedChosen, picks>>

\* subprocess.run(cmd, check=True) and the return of create_reel
create_reel_ffmpeg == Outside("ffmpeg", "ffmpeg", "upload")

\* url = upload_to_r2(video)
main_upload == Outside("upload", "upload", "caption")

\* caption = generate_ai_caption(day): falls back inside, never raises
main_caption ==
    /\ pc = "caption"
    /\ pc' = "email"
    /\ UNCHANGED <<pool, RESET_PROGRESS, file, locals, outcome, effects,
                   alertRaised, runStartFile, obsIndex, seedChosen, picks>>

\* send_email(url, caption, img, aud)
main_email == Outside("email", "email", "cleanup")

\* cleanup_old_r2_files(); cleanup_local(); "DONE"
main_cleanup ==
    /\ pc = "cleanup"
    /\ \E ok \in BOOLEAN : EndRun(IF ok THEN "done" ELSE "failed")
    /\ UNCHANGED <<pool, file, obsIndex, seedChosen, picks>>

\* the steps of a run inside a write of the history file
Opens == {"reset_open", "seed_open", "index_open"}

\* the record a write in progress is writing
Pending == IF pc = "reset_open" THEN DefaultHistory ELSE history

\* the process is killed from outside; a write in progress is cut short
kill ==
    /\ pc # "idle"
    /\ EndRun("killed")
    /\ IF pc \in Opens
       THEN file' \in Partial(JsonDump(Pending))
       ELSE UNCHANGED file
    /\ UNCHANGED <<pool, obsIndex, seedChosen, picks>>

Next ==
    \/ main_start
    \/ reset_progress_open
    \/ reset_progress_write
    \/ create_reel_begin
    \/ create_reel_seed
    \/ create_reel_seed_write
    \/ create_reel_select
    \/ create_reel_index_write
    \/ create_reel_low_stock
    \/ create_reel_ffmpeg
    \/ main_upload
    \/ main_caption
    \/ main_email
    \/ main_cleanup
    \/ kill

Spec == Init /\ [][Next]_vars

SpecAnyRecord == InitAnyRecord /\ [][Next]_vars

\* ------------------------------------------------------------ properties
\* the steps of a run after the advanced index has been saved
Post == {"low_stock", "ffmpeg", "upload", "caption", "email", "cleanup"}

\* the text of the file is cut short: empty, or without its closing brace
CutShort(f) == f.exists /\ (Len(f.content) = 0 \/ f.content[Len(f.content)] # "}")

PickedPairs == { picks[k].pair : k \in 1..Len(picks) }

\* C1: the selections of one cycle (consecutive selections from index 0, each
\* run loading what the one before saved, one seed) are numbered 1, 2, ... in
\* order, pick pair indices of 0..N-1 without repeating one, and cover
\* 0..N-1 once there are N of them; no run selects an (N+1)-th pair, and a
\* run fails as exhausted only after the N selections of the cycle.
C1_FullCoverage ==
    /\ \A k \in 1..Len(picks) :
        /\ picks[k].day = k
        /\ picks[k].pair \in 0..(total_pairs - 1)
        /\ picks[k].seed = picks[1].seed
    /\ \A j, k \in 1..Len(picks) : j # k => picks[j].pair # picks[k].pair
    /\ Len(picks) = total_pairs => PickedPairs = 0..(total_pairs - 1)
    /\ pc \in {"index_open"} \cup Post => day_number <= total_pairs
    /\ outcome = "exhausted" => Len(picks) = total_pairs

C1_Witness ==
    /\ outcome = "exhausted"
    /\ total_pairs >= 4
    /\ Len(picks) = total_pairs
    /\ PickedPairs = 0..(total_pairs - 1)
    /\ \E k \in 1..Len(picks) : picks[k].pair # k - 1

\* C2: the index load_history returns to a run is at least the index it
\* returned to the run before, unless reset_progress ran in between, and it
\* lies in 0..N.
C2_IndexNeverDecreases ==
    [][ (pc = "create" /\ pc' \in {"seed", "shuffle"})
            => /\ (resetSince \/ observedIdx' >= observedIdx)
               /\ observedIdx' \in 0..total_pairs ]_vars

\* C3: a seed is chosen only when no chosen seed has been saved since the
\* last reset_progress (chosen once, saved at once, fixed until an explicit
\* reset), and the seed chosen lies in 1..999999.
C3_SeedChosenOnce ==
    [][ (pc = "seed" /\ pc' = "seed_open")
            => /\ ~seedChosen
               /\ history'.shuffle_seed \in SeedLo..SeedHi ]_vars

\* C4: no outside step is attempted before the advanced index is in the file,
\* and a run that ends (killed or failed) at any point after it selected its
\* pair leaves the advanced record in the file, so that the next run goes on
\* with the next position of the same permutation.
C4_AdvanceSurvivesCrash ==
    [][ /\ (effects' # {} => load_history(file') = history' /\ history'.index = day_number')
        /\ ((pc \in {"index_open"} \cup Post /\ pc' = "idle")
                => load_history(file') = history) ]_vars

C7_ResetProgress ==
    [][ /\ (pc \in {"reset", "reset_open"} => RESET_PROGRESS)
        /\ ((pc = "reset" /\ pc' = "reset_open") \/ pc = "reset_open"
                => load_history(file') = DefaultHistory)
        /\ (pc = "reset_open" /\ pc' = "create" => file' = FileWith(JsonDump(DefaultHistory)))
        /\ (file' # file /\ file' = FileWith(JsonDump(DefaultHistory)) => pc = "reset_open")
        /\ (pc = "create" /\ RESET_PROGRESS /\ pc' # "idle"
                => pc' = "seed" /\ history' = DefaultHistory) ]_vars

C7_Witness ==
    /\ pc = "seed_open"
    /\ RESET_PROGRESS
    /\ load_history(runStartFile).index >= 2
    /\ load_history(runStartFile).shuffle_seed # None
    /\ history.index = 0
    /\ history.shuffle_seed # load_history(runStartFile).shuffle_seed

\* C8: load_history returns the default record when the file is absent or
\* its text is cut short, and otherwise the record the last save_history
\* wrote, unchanged.
C8_LoadRoundTrip ==
    /\ (~file.exists \/ CutShort(file)) => load_history(file) = DefaultHistory
    /\ pc \in {"shuffle"} \cup Post => load_history(file) = history
    /\ (pc = "seed" /\ (~file.exists \/ CutShort(file))) => history = DefaultHistory

C8_Witness ==
    /\ pc = "low_stock"
    /\ history.index >= 2
    /\ history.shuffle_seed \notin {SeedLo, SeedHi}
    /\ load_history(file) = history

\* C9: a run that ends inside save_history leaves a complete record in the
\* file (the one saved before or the one being saved), never an empty or
\* cut-short text that load_history would replace by the default record.
C9_AtomicSave ==
    [][ (pc \in {"seed_open", "index_open"} /\ pc' = "idle")
            => file'.exists /\ ~CutShort(file') /\ JsonLoad(file'.content).ok ]_vars

\* C10: once the low-stock step is past, the alert has been attempted exactly
\* when N minus the advanced index is at most LOW_STOCK_THRESHOLD; if the
\* alert raised, the run is still running, at the encode step or beyond, and
\* the file holds the advanced record.
C10_LowStockAlert ==
    /\ pc \in Post \ {"low_stock"}
        => (("alert" \in effects) <=> (total_pairs - day_number <= LOW_STOCK_THRESHOLD))
    /\ alertRaised
        => /\ pc \in Post \ {"low_stock"}
           /\ outcome = "running"
           /\ "alert" \in effects
           /\ load_history(file).index = day_number
           /\ load_history(file).shuffle_seed = history.shuffle_seed

C10_Witness ==
    /\ pc = "upload"
    /\ alertRaised
    /\ "ffmpeg" \in effects
    /\ total_pairs - day_number = LOW_STOCK_THRESHOLD

====
